---------------------------- MODULE Spec2Model ----------------------------
(***************************************************************************)
(* Model of src/app.js of Metal_VIewer.  The file holds two viewers:       *)
(*   viewer A (lines 1-207):   frameObject, updateMaterialSettings and the *)
(*                             inline model-input / hdr-input / bg-toggle  *)
(*                             handlers;                                   *)
(*   viewer B (lines 209-448): handleModelFile, handleHDRFile,             *)
(*                             autoCenterAndScale, applyMetalMaterial,     *)
(*                             tweakPBR, updateMaterialParams,             *)
(*                             toggleBackground.                           *)
(* SpecA and SpecB are the two event-driven programs.  SpecFrame and       *)
(* SpecNorm apply frameObject and autoCenterAndScale to objects drawn from *)
(* bounded sets of boxes and transforms.                                   *)
(*                                                                         *)
(* Numbers are exact rationals <<n, d>> (d > 0, lowest terms); a division  *)
(* by zero yields <<1,0>>, <<-1,0>> (Infinity) or <<0,0>> (NaN) as in      *)
(* JavaScript.  Rounding of IEEE doubles is not modelled.                  *)
(***************************************************************************)
EXTENDS Integers, Sequences, FiniteSets, TLC

VARIABLES
  currentModel,        \* A line 44, B line 226: Null or the loaded object
  currentMaterialList, \* A line 45: the mesh nodes whose .material was collected
  envMap,              \* A line 46: Null (0) or a texture id
  bgMode,              \* A line 47: 0 = HDR background, 1 = black
  currentEnvMap,       \* B line 225: Null (0) or a texture id
  useEnvBackground,    \* B line 227
  sceneChildren,       \* models added to the scene (by load id)
  sceneBackground,     \* scene.background
  sceneEnvironment,    \* scene.environment
  camera,              \* position, near, far, fov (degrees)
  controls,            \* OrbitControls target, minDistance, maxDistance
  metalSlider,         \* value of #metal-slider
  roughnessSlider,     \* value of #roughness-slider
  statusText,          \* textContent of #status
  bgLabel,             \* textContent of #bg-toggle
  modelLoads,          \* GLTFLoader.load calls, in order: [file, status]
  hdrLoads,            \* RGBELoader.load calls, in order: [file, status]
  urls,                \* object URLs created and not yet revoked
  disposed,            \* textures on which dispose() was called
  coreLog,             \* calls of the core routines made by the last handler
  pc                   \* SpecFrame / SpecNorm: "input" before, "done" after

vars == <<currentModel, currentMaterialList, envMap, bgMode, currentEnvMap,
          useEnvBackground, sceneChildren, sceneBackground, sceneEnvironment,
          camera, controls, metalSlider, roughnessSlider, statusText, bgLabel,
          modelLoads, hdrLoads, urls, disposed, coreLog, pc>>

-----------------------------------------------------------------------------
(* Bounds of the model *)

\* files (model and HDR together) the user selects in one run of a viewer
MaxLoads == 3
\* largest box extent and centre offset drawn in SpecFrame / SpecNorm
MaxExtent == 3

-----------------------------------------------------------------------------
(* Exact rational arithmetic standing for JavaScript numbers *)

RECURSIVE GCD(_, _)
GCD(a, b) == IF b = 0 THEN a ELSE GCD(b, a % b)

Abs(n) == IF n < 0 THEN -n ELSE n

\* n/d in lowest terms; d = 0 gives Infinity (<<1,0>>, <<-1,0>>) or NaN (<<0,0>>)
Rat(n, d) ==
  IF d = 0 THEN <<(IF n > 0 THEN 1 ELSE IF n < 0 THEN -1 ELSE 0), 0>>
  ELSE LET s == IF d < 0 THEN -1 ELSE 1
           g == GCD(Abs(n), Abs(d))
       IN  <<(s * n) \div g, (s * d) \div g>>

IsFinite(a) == a[2] # 0

LCM(a, b) == (a \div GCD(a, b)) * b

RInt(n) == <<n, 1>>
RZero == <<0, 1>>
ROne == <<1, 1>>

RAdd(a, b) ==
  LET l == LCM(a[2], b[2])
  IN  Rat(a[1] * (l \div a[2]) + b[1] * (l \div b[2]), l)

RNeg(a) == <<-a[1], a[2]>>
RSub(a, b) == RAdd(a, RNeg(b))

RMul(a, b) ==
  LET g1 == GCD(Abs(a[1]), b[2])
      g2 == GCD(Abs(b[1]), a[2])
      h1 == IF g1 = 0 THEN 1 ELSE g1
      h2 == IF g2 = 0 THEN 1 ELSE g2
  IN  Rat((a[1] \div h1) * (b[1] \div h2), (a[2] \div h2) * (b[2] \div h1))

\* a / b; b = 0 gives Infinity or NaN
RDiv(a, b) ==
  IF b[1] = 0 THEN Rat(a[1], 0)
  ELSE RMul(a, Rat(b[2], b[1]))

RLt(a, b) ==
  LET l == LCM(a[2], b[2])
  IN  a[1] * (l \div a[2]) < b[1] * (l \div b[2])

RLe(a, b) == a = b \/ RLt(a, b)

RMax(a, b) == IF RLt(a, b) THEN b ELSE a

RAbs(a) == <<Abs(a[1]), a[2]>>

-----------------------------------------------------------------------------
(* THREE.Vector3 and THREE.Box3, as far as app.js uses them *)

Vec(x, y, z) == [x |-> x, y |-> y, z |-> z]
VecI(x, y, z) == Vec(RInt(x), RInt(y), RInt(z))
VZero == VecI(0, 0, 0)
VAdd(a, b) == Vec(RAdd(a.x, b.x), RAdd(a.y, b.y), RAdd(a.z, b.z))
VSub(a, b) == Vec(RSub(a.x, b.x), RSub(a.y, b.y), RSub(a.z, b.z))
VScale(a, s) == Vec(RMul(a.x, s), RMul(a.y, s), RMul(a.z, s))

\* an empty Box3 (makeEmpty: min = +Infinity, max = -Infinity) has empty = TRUE
Box(lo, hi) == [empty |-> FALSE, min |-> lo, max |-> hi]
EmptyBox == [empty |-> TRUE, min |-> VZero, max |-> VZero]

\* Box3.setFromObject(object): the world-space box of the object's geometry.
\* The object is a root without rotation, with a position and a positive
\* uniform scale, over geometry whose box in the root's frame is localBox.
setFromObject(object) ==
  IF object.localBox.empty THEN EmptyBox
  ELSE Box(VAdd(object.position, VScale(object.localBox.min, object.scale)),
           VAdd(object.position, VScale(object.localBox.max, object.scale)))

\* Box3.getSize / Box3.getCenter: (0,0,0) for an empty box
getSize(box) == IF box.empty THEN VZero ELSE VSub(box.max, box.min)
getCenter(box) ==
  IF box.empty THEN VZero ELSE VScale(VAdd(box.min, box.max), Rat(1, 2))

\* Math.max(size.x, size.y, size.z)
MaxDim(size) == RMax(size.x, RMax(size.y, size.z))

-----------------------------------------------------------------------------
(* Viewer A: frameObject, lines 50-74 *)

\* line 57: Math.max(size.x, size.y, size.z) || 1.0
FrameMaxDimNoFloor(size) == MaxDim(size)
FrameMaxDim(size) == IF MaxDim(size) = RZero THEN ROne ELSE MaxDim(size)

\* Math.tan(THREE.MathUtils.degToRad(fov) / 2) for the fov the camera is built
\* with: tan(22.5 deg) = 0.41421..., taken as 12/29 = 0.41379...
TanHalfFov(fovDeg) == CASE fovDeg = 45 -> Rat(12, 29)

\* Math.tan(fov) in place of Math.tan(fov / 2): tan(45 deg) = 1
FitDistanceFullAngle(maxDim, fovDeg) == RDiv(RMul(maxDim, Rat(3, 2)), ROne)
\* lines 58-60: fitOffset = 1.5; fitDistance = (maxDim * fitOffset) / Math.tan(fov / 2)
FitDistance(maxDim, fovDeg) == RDiv(RMul(maxDim, Rat(3, 2)), TanHalfFov(fovDeg))

\* far written as maxDim / 200
ClipPlanesFarDivided(maxDim) ==
  [near |-> RDiv(maxDim, RInt(100)), far |-> RDiv(maxDim, RInt(200))]
\* lines 66-67: camera.near = maxDim / 100; camera.far = maxDim * 20
ClipPlanes(maxDim) ==
  [near |-> RDiv(maxDim, RInt(100)), far |-> RMul(maxDim, RInt(20))]

\* lines 71-72: controls.minDistance = maxDim * 0.1; controls.maxDistance = maxDim * 10
OrbitLimits(maxDim) ==
  [minDistance |-> RMul(maxDim, Rat(1, 10)), maxDistance |-> RMul(maxDim, RInt(10))]

\* The camera and controls as frameObject(object) leaves them.
frameObject(object, cam, ctl) ==
  LET box == setFromObject(object)
      size == getSize(box)
      center == getCenter(box)
      maxDim == FrameMaxDim(size)
      fitDistance == FitDistance(maxDim, cam.fov)
      clip == ClipPlanes(maxDim)
      orbit == OrbitLimits(maxDim)
  IN  [camera |-> [cam EXCEPT
                    !.position = VAdd(center, Vec(RZero, RMul(maxDim, Rat(3, 10)), fitDistance)),
                    !.near = clip.near,
                    !.far = clip.far],
       controls |-> [ctl EXCEPT
                    !.target = center,
                    !.minDistance = orbit.minDistance,
                    !.maxDistance = orbit.maxDistance]]

-----------------------------------------------------------------------------
(* Viewer B: autoCenterAndScale, lines 363-379 *)

\* the guard written maxDim >= 0
NormScaleUnguarded(object, maxDim) ==
  IF RLe(RZero, maxDim) THEN RDiv(Rat(6, 10), maxDim) ELSE object.scale
\* lines 374-378: if (maxDim > 0) object.scale.setScalar(0.6 / maxDim)
NormScale(object, maxDim) ==
  IF RLt(RZero, maxDim) THEN RDiv(Rat(6, 10), maxDim) ELSE object.scale

\* The object as autoCenterAndScale(object) leaves it.
autoCenterAndScale(object) ==
  LET box == setFromObject(object)
      size == getSize(box)
      center == getCenter(box)
  IN  [object EXCEPT
        !.position = Vec(RAdd(object.position.x, RNeg(center.x)),
                         RAdd(object.position.y,
                              RAdd(RNeg(center.y), RMul(size.y, Rat(2, 100)))),
                         RAdd(object.position.z, RNeg(center.z))),
        !.scale = NormScale(object, MaxDim(size))]

-----------------------------------------------------------------------------
(* Materials and scene graphs *)

\* A material is a record of the properties it has; "metalness" in material
\* is "metalness" \in DOMAIN material.  An assignment adds or overwrites.
SetField(m, k, v) == [f \in DOMAIN m \cup {k} |-> IF f = k THEN v ELSE m[f]]

\* MeshStandardMaterial as a loader hands it over
PBR(metalness, roughness, envMapIntensity) ==
  [metalness |-> metalness, roughness |-> roughness,
   envMapIntensity |-> envMapIntensity, envMap |-> 0, needsUpdate |-> FALSE]
\* LineBasicMaterial: no metalness, roughness, envMap or envMapIntensity
LineMaterial == [linewidth |-> ROne, needsUpdate |-> FALSE]

\* mesh.material: one material (fields), or an array of materials (items)
\* whose own properties (fields) are those of the array object
Single(m) == [isArray |-> FALSE, fields |-> m, items |-> <<>>]
Multi(ms) == [isArray |-> TRUE, fields |-> [length |-> Len(ms)], items |-> ms]

Group(children) ==
  [isMesh |-> FALSE, children |-> children, material |-> Single(LineMaterial)]
Mesh(material) == [isMesh |-> TRUE, children |-> <<>>, material |-> material]

\* Object3D.traverse(callback): the node, then each child's subtree, in order
RECURSIVE traverse(_, _)
RECURSIVE traverseAll(_, _)
traverseAll(nodes, ids) ==
  IF ids = <<>> THEN <<>>
  ELSE traverse(nodes, Head(ids)) \o traverseAll(nodes, Tail(ids))
traverse(nodes, n) == <<n>> \o traverseAll(nodes, nodes[n].children)

Range(seq) == {seq[i] : i \in DOMAIN seq}

\* The files the user can select.  gltf.scene is a Group at the origin with
\* scale 1; node 1 is that root.
FileNames == {"parts", "point"}

\* A root with four meshes (one under a nested group): a two-element material
\* list, two single PBR materials, one line material; box (0,0,0)-(2,4,2).
PartsNodes ==
  <<Group(<<2, 3, 6>>),
    Mesh(Multi(<<PBR(ROne, ROne, ROne), PBR(RZero, Rat(1, 2), RInt(2))>>)),
    Group(<<4, 5>>),
    Mesh(Single(PBR(ROne, ROne, ROne))),
    Mesh(Single(PBR(Rat(1, 2), RZero, Rat(6, 5)))),
    Mesh(Single(LineMaterial))>>

GltfScene(file) ==
  CASE file = "parts" ->
         [position |-> VZero, scale |-> ROne,
          localBox |-> Box(VecI(0, 0, 0), VecI(2, 4, 2)),
          nodes |-> PartsNodes]
    [] file = "point" ->
         [position |-> VZero, scale |-> ROne,
          localBox |-> Box(VecI(1, 1, 1), VecI(1, 1, 1)),
          nodes |-> <<Group(<<2>>), Mesh(Single(LineMaterial))>>]

\* The object a successful load i of file hands to the callback
Loaded(i, file) ==
  [load |-> i, file |-> file] @@ GltfScene(file)

\* no model: currentModel = null
Null == [load |-> 0]
HasModel(model) == model.load # 0

IsPBR(m) == "metalness" \in DOMAIN m /\ "roughness" \in DOMAIN m

\* every material of every mesh of the model, as <<node, index>> -> material
\* (index 0: the single material)
MaterialsOf(model) ==
  LET ns == Range(traverse(model.nodes, 1))
      keys == {<<n, 0>> : n \in {k \in ns : model.nodes[k].isMesh
                                            /\ ~model.nodes[k].material.isArray}}
              \cup UNION {{<<n, j>> : j \in DOMAIN model.nodes[n].material.items} :
                          n \in {k \in ns : model.nodes[k].isMesh
                                            /\ model.nodes[k].material.isArray}}
  IN  [k \in keys |-> IF k[2] = 0 THEN model.nodes[k[1]].material.fields
                      ELSE model.nodes[k[1]].material.items[k[2]]]

-----------------------------------------------------------------------------
(* Viewer B: applyMetalMaterial and tweakPBR, lines 382-406 *)

\* the PBR test left out
tweakPBRUnchecked(material, metalness, roughness, env) ==
  [f \in DOMAIN material \cup {"metalness", "roughness", "envMapIntensity", "needsUpdate"} |->
     CASE f = "metalness" -> metalness
       [] f = "roughness" -> roughness
       [] f = "envMapIntensity" -> IF env # 0 THEN Rat(12, 10) ELSE Rat(4, 10)
       [] f = "needsUpdate" -> TRUE
       [] OTHER -> material[f]]
\* metalness added to the material's instead of replacing it
tweakPBRAccumulating(material, metalness, roughness, env) ==
  IF ~IsPBR(material) THEN material
  ELSE [tweakPBRUnchecked(material, metalness, roughness, env) EXCEPT
          !.metalness = RAdd(material.metalness, metalness)]
\* envMapIntensity scaled instead of set
tweakPBRScaling(material, metalness, roughness, env) ==
  IF ~IsPBR(material) THEN material
  ELSE [tweakPBRUnchecked(material, metalness, roughness, env) EXCEPT
          !.envMapIntensity =
             RMul(material.envMapIntensity, IF env # 0 THEN Rat(12, 10) ELSE Rat(4, 10))]
\* lines 398-406; env is currentEnvMap, read when the material is tweaked
tweakPBR(material, metalness, roughness, env) ==
  IF "null" \in DOMAIN material \/ ~IsPBR(material) THEN material
  ELSE SetField(SetField(SetField(SetField(material,
         "metalness", metalness),
         "roughness", roughness),
         "envMapIntensity", IF env # 0 THEN Rat(12, 10) ELSE Rat(4, 10)),
         "needsUpdate", TRUE)

\* the callback of root.traverse, lines 387-394, on one node
tweakNode(node, metalness, roughness, env) ==
  IF ~node.isMesh THEN node
  ELSE IF node.material.isArray
       THEN [node EXCEPT !.material.items =
               [j \in DOMAIN @ |-> tweakPBR(@[j], metalness, roughness, env)]]
       ELSE [node EXCEPT !.material.fields = tweakPBR(@, metalness, roughness, env)]

\* only the root's direct children visited
applyMetalMaterialShallow(root, metalness, roughness, env) ==
  [root EXCEPT !.nodes =
     [n \in DOMAIN @ |->
        IF n \in Range(root.nodes[1].children) \cup {1}
        THEN tweakNode(@[n], metalness, roughness, env) ELSE @[n]]]
\* lines 382-396: metalness and roughness are parseFloat of the sliders' values
applyMetalMaterial(root, metalness, roughness, env) ==
  [root EXCEPT !.nodes =
     [n \in DOMAIN @ |->
        IF n \in Range(traverse(root.nodes, 1))
        THEN tweakNode(@[n], metalness, roughness, env) ELSE @[n]]]

-----------------------------------------------------------------------------
(* The page: sliders, status line, loaders *)

\* the value strings the two range inputs can hold
SliderValues == {"0.3", "0.8"}
\* parseFloat of a slider's value string
parseFloat(str) == CASE str = "0.3" -> Rat(3, 10) [] str = "0.8" -> Rat(8, 10)

\* the HDR files the user can select
HdrNames == {"studio"}
\* event.target.files[0] is undefined when the dialog is cancelled
NoFile == "(none)"

\* textContent of #bg-toggle: as the page has it, then the two texts the
\* handlers write ("env": U+80CC U+666F U+FF1A U+74B0 U+5883, "black": ... U+9ED1 U+8272)
LabelInitial == "html"
LabelEnv == "env"
LabelBlack == "black"

Black == [kind |-> "black", tex |-> 0]       \* new THREE.Color(0x000000)
NoBackground == [kind |-> "none", tex |-> 0] \* scene.background = null
Texture(t) == [kind |-> "texture", tex |-> t]

Pending(loads) == {i \in DOMAIN loads : loads[i].status = "pending"}
Start(loads, file) == Append(loads, [file |-> file, status |-> "pending"])
\* a settled load keeps its outcome only; its callback has run
Settle(loads, i, status) == [loads EXCEPT ![i] = [file |-> NoFile, status |-> status]]

Call(fn, model) == [fn |-> fn, load |-> model.load]

-----------------------------------------------------------------------------
(* Viewer B, lines 209-448 *)

InitB ==
  /\ currentModel = Null
  /\ currentMaterialList = <<>>
  /\ envMap = 0
  /\ bgMode = 0
  /\ currentEnvMap = 0
  /\ useEnvBackground = TRUE
  /\ sceneChildren = {}
  /\ sceneBackground = Black
  /\ sceneEnvironment = 0
  /\ camera = [position |-> Vec(RZero, Rat(15, 100), Rat(14, 10)),
               near |-> Rat(1, 10), far |-> RInt(100), fov |-> 35]
  /\ controls = [target |-> Vec(RZero, Rat(1, 10), RZero),
                 minDistance |-> Rat(3, 10), maxDistance |-> RInt(3)]
  /\ metalSlider \in SliderValues
  /\ roughnessSlider \in SliderValues
  /\ statusText = <<"initial">>
  /\ bgLabel = LabelInitial
  /\ modelLoads = <<>>
  /\ hdrLoads = <<>>
  /\ urls = {}
  /\ disposed = {}
  /\ coreLog = {}
  /\ pc = "B"

\* currentModel assigned when the file is selected, before the load completes
handleModelFileEager ==
  /\ pc = "B"
  /\ \E file \in FileNames :
    /\ Len(modelLoads) + Len(hdrLoads) < MaxLoads
    /\ urls' = urls \cup {<<"model", Len(modelLoads) + 1>>}
    /\ statusText' = <<"loading model">>
    /\ modelLoads' = Start(modelLoads, file)
    /\ currentModel' = Loaded(Len(modelLoads) + 1, file)
    /\ coreLog' = {}
    /\ UNCHANGED <<currentMaterialList, envMap, bgMode,
                   currentEnvMap, useEnvBackground, sceneChildren,
                   sceneBackground, sceneEnvironment, camera, controls,
                   metalSlider, roughnessSlider, bgLabel, hdrLoads,
                   disposed, pc>>
\* lines 290-298: the change event of #model-input up to loader.load
handleModelFile ==
  /\ pc = "B"
  /\ \E file \in FileNames \cup {NoFile} :
    IF file = NoFile
    THEN UNCHANGED vars
    ELSE /\ Len(modelLoads) + Len(hdrLoads) < MaxLoads
         /\ urls' = urls \cup {<<"model", Len(modelLoads) + 1>>}
         /\ statusText' = <<"loading model">>
         /\ modelLoads' = Start(modelLoads, file)
         /\ coreLog' = {}
         /\ UNCHANGED <<currentModel, currentMaterialList, envMap, bgMode,
                        currentEnvMap, useEnvBackground, sceneChildren,
                        sceneBackground, sceneEnvironment, camera, controls,
                        metalSlider, roughnessSlider, bgLabel, hdrLoads,
                        disposed, pc>>

\* the success callback without line 301: the previous model stays in the scene
ModelLoadedBKeepingOld(i) ==
  /\ pc = "B"
  /\ i \in Pending(modelLoads)
  /\ LET gltf == Loaded(i, modelLoads[i].file)
         centred == autoCenterAndScale(gltf)
         tweaked == applyMetalMaterial(centred, parseFloat(metalSlider),
                                       parseFloat(roughnessSlider), currentEnvMap)
     IN  /\ currentModel' = tweaked
         /\ sceneChildren' = sceneChildren \cup {i}
         /\ coreLog' = {Call("autoCenterAndScale", gltf), Call("applyMetalMaterial", gltf)}
  /\ modelLoads' = Settle(modelLoads, i, "done")
  /\ statusText' = <<"model loaded", modelLoads[i].file>>
  /\ urls' = urls \ {<<"model", i>>}
  /\ UNCHANGED <<currentMaterialList, envMap, bgMode, currentEnvMap,
                 useEnvBackground, sceneBackground, sceneEnvironment, camera,
                 controls, metalSlider, roughnessSlider, bgLabel, hdrLoads,
                 disposed, pc>>

\* lines 300-311: the success callback of load i
ModelLoadedB(i) ==
  /\ pc = "B"
  /\ i \in Pending(modelLoads)
  /\ LET gltf == Loaded(i, modelLoads[i].file)
         centred == autoCenterAndScale(gltf)
         tweaked == applyMetalMaterial(centred, parseFloat(metalSlider),
                                       parseFloat(roughnessSlider), currentEnvMap)
     IN  /\ currentModel' = tweaked
         /\ sceneChildren' = (sceneChildren \ {currentModel.load}) \cup {i}
         /\ coreLog' = {Call("autoCenterAndScale", gltf), Call("applyMetalMaterial", gltf)}
  /\ modelLoads' = Settle(modelLoads, i, "done")
  /\ statusText' = <<"model loaded", modelLoads[i].file>>
  /\ urls' = urls \ {<<"model", i>>}
  /\ UNCHANGED <<currentMaterialList, envMap, bgMode, currentEnvMap,
                 useEnvBackground, sceneBackground, sceneEnvironment, camera,
                 controls, metalSlider, roughnessSlider, bgLabel, hdrLoads,
                 disposed, pc>>

\* an error callback that also takes the displayed model out of the scene
ModelFailedBClearing(i) ==
  /\ pc = "B"
  /\ i \in Pending(modelLoads)
  /\ modelLoads' = Settle(modelLoads, i, "failed")
  /\ statusText' = <<"model failed">>
  /\ urls' = urls \ {<<"model", i>>}
  /\ coreLog' = {}
  /\ currentModel' = Null
  /\ sceneChildren' = {}
  /\ UNCHANGED <<currentMaterialList, envMap, bgMode,
                 currentEnvMap, useEnvBackground,
                 sceneBackground, sceneEnvironment, camera, controls,
                 metalSlider, roughnessSlider, bgLabel, hdrLoads, disposed, pc>>

\* lines 313-317: the error callback of load i
ModelFailedB(i) ==
  /\ pc = "B"
  /\ i \in Pending(modelLoads)
  /\ modelLoads' = Settle(modelLoads, i, "failed")
  /\ statusText' = <<"model failed">>
  /\ urls' = urls \ {<<"model", i>>}
  /\ coreLog' = {}
  /\ UNCHANGED <<currentModel, currentMaterialList, envMap, bgMode,
                 currentEnvMap, useEnvBackground, sceneChildren,
                 sceneBackground, sceneEnvironment, camera, controls,
                 metalSlider, roughnessSlider, bgLabel, hdrLoads, disposed, pc>>

\* lines 322-330: the change event of #hdr-input up to rgbeLoader.load
handleHDRFile ==
  /\ pc = "B"
  /\ \E file \in HdrNames \cup {NoFile} :
    IF file = NoFile
    THEN UNCHANGED vars
    ELSE /\ Len(modelLoads) + Len(hdrLoads) < MaxLoads
         /\ urls' = urls \cup {<<"hdr", Len(hdrLoads) + 1>>}
         /\ statusText' = <<"loading hdr">>
         /\ hdrLoads' = Start(hdrLoads, file)
         /\ coreLog' = {}
         /\ UNCHANGED <<currentModel, currentMaterialList, envMap, bgMode,
                        currentEnvMap, useEnvBackground, sceneChildren,
                        sceneBackground, sceneEnvironment, camera, controls,
                        metalSlider, roughnessSlider, bgLabel, modelLoads,
                        disposed, pc>>

\* the success callback without lines 345-347: the current model keeps the
\* parameters it had before the map arrived
HdrLoadedBNoRepropagation(i) ==
  /\ pc = "B"
  /\ i \in Pending(hdrLoads)
  /\ disposed' = IF currentEnvMap # 0 THEN disposed \cup {currentEnvMap} ELSE disposed
  /\ currentEnvMap' = i
  /\ sceneEnvironment' = i
  /\ sceneBackground' = IF useEnvBackground THEN Texture(i) ELSE sceneBackground
  /\ currentModel' = currentModel
  /\ coreLog' = {}
  /\ hdrLoads' = Settle(hdrLoads, i, "done")
  /\ statusText' = <<"hdr loaded", hdrLoads[i].file>>
  /\ UNCHANGED <<currentMaterialList, envMap, bgMode, useEnvBackground,
                 sceneChildren, camera, controls, metalSlider, roughnessSlider,
                 bgLabel, modelLoads, urls, pc>>

\* the success callback without lines 341-343: the background keeps showing
\* what it showed, the replaced map included
HdrLoadedBStaleBackground(i) ==
  /\ pc = "B"
  /\ i \in Pending(hdrLoads)
  /\ disposed' = IF currentEnvMap # 0 THEN disposed \cup {currentEnvMap} ELSE disposed
  /\ currentEnvMap' = i
  /\ sceneEnvironment' = i
  /\ sceneBackground' = sceneBackground
  /\ IF HasModel(currentModel)
     THEN /\ currentModel' = applyMetalMaterial(currentModel, parseFloat(metalSlider),
                                                parseFloat(roughnessSlider), i)
          /\ coreLog' = {Call("applyMetalMaterial", currentModel)}
     ELSE /\ currentModel' = currentModel
          /\ coreLog' = {}
  /\ hdrLoads' = Settle(hdrLoads, i, "done")
  /\ statusText' = <<"hdr loaded", hdrLoads[i].file>>
  /\ UNCHANGED <<currentMaterialList, envMap, bgMode, useEnvBackground,
                 sceneChildren, camera, controls, metalSlider, roughnessSlider,
                 bgLabel, modelLoads, urls, pc>>

\* lines 332-352: the success callback of HDR load i; its texture is texture i
HdrLoadedB(i) ==
  /\ pc = "B"
  /\ i \in Pending(hdrLoads)
  /\ disposed' = IF currentEnvMap # 0 THEN disposed \cup {currentEnvMap} ELSE disposed
  /\ currentEnvMap' = i
  /\ sceneEnvironment' = i
  /\ sceneBackground' = IF useEnvBackground THEN Texture(i) ELSE sceneBackground
  /\ IF HasModel(currentModel)
     THEN /\ currentModel' = applyMetalMaterial(currentModel, parseFloat(metalSlider),
                                                parseFloat(roughnessSlider), i)
          /\ coreLog' = {Call("applyMetalMaterial", currentModel)}
     ELSE /\ currentModel' = currentModel
          /\ coreLog' = {}
  /\ hdrLoads' = Settle(hdrLoads, i, "done")
  /\ statusText' = <<"hdr loaded", hdrLoads[i].file>>
  /\ UNCHANGED <<currentMaterialList, envMap, bgMode, useEnvBackground,
                 sceneChildren, camera, controls, metalSlider, roughnessSlider,
                 bgLabel, modelLoads, urls, pc>>

\* lines 354-358: the error callback of HDR load i
HdrFailedB(i) ==
  /\ pc = "B"
  /\ i \in Pending(hdrLoads)
  /\ hdrLoads' = Settle(hdrLoads, i, "failed")
  /\ statusText' = <<"hdr failed">>
  /\ urls' = urls \ {<<"hdr", i>>}
  /\ coreLog' = {}
  /\ UNCHANGED <<currentModel, currentMaterialList, envMap, bgMode,
                 currentEnvMap, useEnvBackground, sceneChildren,
                 sceneBackground, sceneEnvironment, camera, controls,
                 metalSlider, roughnessSlider, bgLabel, modelLoads, disposed, pc>>

\* lines 409-414, with the sliders at metal and rough
updateMaterialParams(metal, rough) ==
  IF HasModel(currentModel)
  THEN /\ currentModel' = applyMetalMaterial(currentModel, parseFloat(metal),
                                             parseFloat(rough), currentEnvMap)
       /\ statusText' = <<"params", metal, rough>>
       /\ coreLog' = {Call("applyMetalMaterial", currentModel)}
  ELSE /\ UNCHANGED <<currentModel, statusText>>
       /\ coreLog' = {}

\* an input event of #metal-slider (line 280): the value changes, the handler runs
MetalInputB ==
  /\ pc = "B"
  /\ \E v \in SliderValues \ {metalSlider} :
    /\ metalSlider' = v
    /\ updateMaterialParams(v, roughnessSlider)
    /\ UNCHANGED <<currentMaterialList, envMap, bgMode, currentEnvMap,
                   useEnvBackground, sceneChildren, sceneBackground,
                   sceneEnvironment, camera, controls, roughnessSlider, bgLabel,
                   modelLoads, hdrLoads, urls, disposed, pc>>

\* an input event of #roughness-slider (line 281)
RoughnessInputB ==
  /\ pc = "B"
  /\ \E v \in SliderValues \ {roughnessSlider} :
    /\ roughnessSlider' = v
    /\ updateMaterialParams(metalSlider, v)
    /\ UNCHANGED <<currentMaterialList, envMap, bgMode, currentEnvMap,
                   useEnvBackground, sceneChildren, sceneBackground,
                   sceneEnvironment, camera, controls, metalSlider, bgLabel,
                   modelLoads, hdrLoads, urls, disposed, pc>>

\* lines 417-426
toggleBackground ==
  /\ pc = "B"
  /\ useEnvBackground' = ~useEnvBackground
  /\ IF useEnvBackground' /\ currentEnvMap # 0
     THEN /\ sceneBackground' = Texture(currentEnvMap)
          /\ bgLabel' = LabelEnv
     ELSE /\ sceneBackground' = Black
          /\ bgLabel' = LabelBlack
  /\ coreLog' = {}
  /\ UNCHANGED <<currentModel, currentMaterialList, envMap, bgMode,
                 currentEnvMap, sceneChildren, sceneEnvironment, camera,
                 controls, metalSlider, roughnessSlider, statusText, modelLoads,
                 hdrLoads, urls, disposed, pc>>

NextB ==
  \/ handleModelFile
  \/ \E i \in DOMAIN modelLoads : ModelLoadedB(i)
  \/ \E i \in DOMAIN modelLoads : ModelFailedB(i)
  \/ handleHDRFile
  \/ \E i \in DOMAIN hdrLoads : HdrLoadedB(i)
  \/ \E i \in DOMAIN hdrLoads : HdrFailedB(i)
  \/ MetalInputB
  \/ RoughnessInputB
  \/ toggleBackground

SpecB == InitB /\ [][NextB]_vars

-----------------------------------------------------------------------------
(* Viewer A, lines 1-207 *)

InitA ==
  /\ currentModel = Null
  /\ currentMaterialList = <<>>
  /\ envMap = 0
  /\ bgMode = 0
  /\ currentEnvMap = 0
  /\ useEnvBackground = TRUE
  /\ sceneChildren = {}
  /\ sceneBackground = NoBackground
  /\ sceneEnvironment = 0
  /\ camera = [position |-> Vec(RZero, Rat(7, 10), Rat(12, 10)),
               near |-> Rat(1, 10), far |-> RInt(100), fov |-> 45]
  \* OrbitControls as constructed: target (0,0,0), minDistance 0, maxDistance Infinity
  /\ controls = [target |-> VZero, minDistance |-> RZero, maxDistance |-> Rat(1, 0)]
  /\ metalSlider \in SliderValues
  /\ roughnessSlider \in SliderValues
  /\ statusText = <<"initial">>
  /\ bgLabel = LabelInitial
  /\ modelLoads = <<>>
  /\ hdrLoads = <<>>
  /\ urls = {}
  /\ disposed = {}
  /\ coreLog = {}
  /\ pc = "A"

\* lines 78-83 on one collected entry: the properties land on what
\* obj.material is, the material or the array object
settingsOn(node, metalness, roughness) ==
  IF "null" \in DOMAIN node.material.fields THEN node
  ELSE [node EXCEPT !.material.fields =
          SetField(SetField(SetField(@, "metalness", metalness),
                            "roughness", roughness), "needsUpdate", TRUE)]

\* lines 77-84, with the sliders at metal and rough
updateMaterialSettings(model, list, metal, rough) ==
  IF ~HasModel(model) THEN model
  ELSE [model EXCEPT !.nodes =
          [n \in DOMAIN @ |->
             IF n \in Range(list)
             THEN settingsOn(@[n], parseFloat(metal), parseFloat(rough)) ELSE @[n]]]

\* lines 107-111: the mesh nodes in traversal order, whose obj.material
\* is pushed on currentMaterialList
collectMaterials(model) ==
  SelectSeq(traverse(model.nodes, 1), LAMBDA n : model.nodes[n].isMesh)
\* line 112 (dirty = FALSE) and lines 150-153 (dirty = TRUE): envMap, and
\* needsUpdate, assigned on each collected obj.material
withEnvMap(model, list, tex, dirty) ==
  IF ~HasModel(model) THEN model
  ELSE [model EXCEPT !.nodes =
          [n \in DOMAIN @ |->
             IF n \in Range(list)
             THEN [@[n] EXCEPT !.material.fields =
                     IF dirty THEN SetField(SetField(@, "envMap", tex), "needsUpdate", TRUE)
                     ELSE SetField(@, "envMap", tex)]
             ELSE @[n]]]

\* lines 87-96: the change event of #model-input up to loader.load
ModelInputA ==
  /\ pc = "A"
  /\ \E file \in FileNames \cup {NoFile} :
    IF file = NoFile
    THEN UNCHANGED vars
    ELSE /\ Len(modelLoads) + Len(hdrLoads) < MaxLoads
         /\ urls' = urls \cup {<<"model", Len(modelLoads) + 1>>}
         /\ statusText' = <<"loading model">>
         /\ modelLoads' = Start(modelLoads, file)
         /\ coreLog' = {}
         /\ UNCHANGED <<currentModel, currentMaterialList, envMap, bgMode,
                        currentEnvMap, useEnvBackground, sceneChildren,
                        sceneBackground, sceneEnvironment, camera, controls,
                        metalSlider, roughnessSlider, bgLabel, hdrLoads,
                        disposed, pc>>

\* lines 98-121: the success callback of load i
ModelLoadedA(i) ==
  /\ pc = "A"
  /\ i \in Pending(modelLoads)
  /\ LET gltf == Loaded(i, modelLoads[i].file)
         list == collectMaterials(gltf)
         collected == IF envMap # 0 THEN withEnvMap(gltf, list, envMap, FALSE) ELSE gltf
         updated == updateMaterialSettings(collected, list, metalSlider, roughnessSlider)
         framed == frameObject(updated, camera, controls)
     IN  /\ currentModel' = updated
         /\ currentMaterialList' = list
         /\ camera' = framed.camera
         /\ controls' = framed.controls
         /\ coreLog' = {Call("updateMaterialSettings", gltf), Call("frameObject", gltf)}
  /\ sceneChildren' = (sceneChildren \ {currentModel.load}) \cup {i}
  /\ modelLoads' = Settle(modelLoads, i, "done")
  /\ statusText' = <<"model loaded">>
  /\ urls' = urls \ {<<"model", i>>}
  /\ UNCHANGED <<envMap, bgMode, currentEnvMap, useEnvBackground,
                 sceneBackground, sceneEnvironment, metalSlider,
                 roughnessSlider, bgLabel, hdrLoads, disposed, pc>>

\* lines 123-126: the error callback of load i
ModelFailedA(i) ==
  /\ pc = "A"
  /\ i \in Pending(modelLoads)
  /\ modelLoads' = Settle(modelLoads, i, "failed")
  /\ statusText' = <<"model failed">>
  /\ coreLog' = {}
  /\ UNCHANGED <<currentModel, currentMaterialList, envMap, bgMode,
                 currentEnvMap, useEnvBackground, sceneChildren,
                 sceneBackground, sceneEnvironment, camera, controls,
                 metalSlider, roughnessSlider, bgLabel, hdrLoads, urls,
                 disposed, pc>>

\* lines 131-140: the change event of #hdr-input up to loader.load
HdrInputA ==
  /\ pc = "A"
  /\ \E file \in HdrNames \cup {NoFile} :
    IF file = NoFile
    THEN UNCHANGED vars
    ELSE /\ Len(modelLoads) + Len(hdrLoads) < MaxLoads
         /\ urls' = urls \cup {<<"hdr", Len(hdrLoads) + 1>>}
         /\ statusText' = <<"loading hdr">>
         /\ hdrLoads' = Start(hdrLoads, file)
         /\ coreLog' = {}
         /\ UNCHANGED <<currentModel, currentMaterialList, envMap, bgMode,
                        currentEnvMap, useEnvBackground, sceneChildren,
                        sceneBackground, sceneEnvironment, camera, controls,
                        metalSlider, roughnessSlider, bgLabel, modelLoads,
                        disposed, pc>>

\* lines 142-157: the success callback of HDR load i; its texture is texture i
HdrLoadedA(i) ==
  /\ pc = "A"
  /\ i \in Pending(hdrLoads)
  /\ envMap' = i
  /\ sceneBackground' = IF bgMode = 0 THEN Texture(i) ELSE sceneBackground
  /\ sceneEnvironment' = i
  /\ currentModel' = withEnvMap(currentModel, currentMaterialList, i, TRUE)
  /\ hdrLoads' = Settle(hdrLoads, i, "done")
  /\ statusText' = <<"hdr loaded">>
  /\ urls' = urls \ {<<"hdr", i>>}
  /\ coreLog' = {}
  /\ UNCHANGED <<currentMaterialList, bgMode, currentEnvMap, useEnvBackground,
                 sceneChildren, camera, controls, metalSlider, roughnessSlider,
                 bgLabel, modelLoads, disposed, pc>>

\* lines 159-162: the error callback of HDR load i
HdrFailedA(i) ==
  /\ pc = "A"
  /\ i \in Pending(hdrLoads)
  /\ hdrLoads' = Settle(hdrLoads, i, "failed")
  /\ statusText' = <<"hdr failed">>
  /\ coreLog' = {}
  /\ UNCHANGED <<currentModel, currentMaterialList, envMap, bgMode,
                 currentEnvMap, useEnvBackground, sceneChildren,
                 sceneBackground, sceneEnvironment, camera, controls,
                 metalSlider, roughnessSlider, bgLabel, modelLoads, urls,
                 disposed, pc>>

\* an input event of #metal-slider (line 167): the value changes, the handler runs
MetalInputA ==
  /\ pc = "A"
  /\ \E v \in SliderValues \ {metalSlider} :
    /\ metalSlider' = v
    /\ currentModel' = updateMaterialSettings(currentModel, currentMaterialList,
                                              v, roughnessSlider)
    /\ coreLog' = IF HasModel(currentModel)
                  THEN {Call("updateMaterialSettings", currentModel)} ELSE {}
    /\ UNCHANGED <<currentMaterialList, envMap, bgMode, currentEnvMap,
                   useEnvBackground, sceneChildren, sceneBackground,
                   sceneEnvironment, camera, controls, roughnessSlider,
                   statusText, bgLabel, modelLoads, hdrLoads, urls, disposed, pc>>

\* an input event of #roughness-slider (line 168)
RoughnessInputA ==
  /\ pc = "A"
  /\ \E v \in SliderValues \ {roughnessSlider} :
    /\ roughnessSlider' = v
    /\ currentModel' = updateMaterialSettings(currentModel, currentMaterialList,
                                              metalSlider, v)
    /\ coreLog' = IF HasModel(currentModel)
                  THEN {Call("updateMaterialSettings", currentModel)} ELSE {}
    /\ UNCHANGED <<currentMaterialList, envMap, bgMode, currentEnvMap,
                   useEnvBackground, sceneChildren, sceneBackground,
                   sceneEnvironment, camera, controls, metalSlider,
                   statusText, bgLabel, modelLoads, hdrLoads, urls, disposed, pc>>

\* lines 171-181: the click handler of #bg-toggle
BgToggleA ==
  /\ pc = "A"
  /\ bgMode' = (bgMode + 1) % 2
  /\ IF bgMode' = 0
     THEN /\ bgLabel' = LabelEnv
          /\ sceneBackground' = IF envMap # 0 THEN Texture(envMap) ELSE Black
     ELSE /\ bgLabel' = LabelBlack
          /\ sceneBackground' = Black
  /\ coreLog' = {}
  /\ UNCHANGED <<currentModel, currentMaterialList, envMap, currentEnvMap,
                 useEnvBackground, sceneChildren, sceneEnvironment, camera,
                 controls, metalSlider, roughnessSlider, statusText,
                 modelLoads, hdrLoads, urls, disposed, pc>>

NextA ==
  \/ ModelInputA
  \/ \E i \in DOMAIN modelLoads : ModelLoadedA(i)
  \/ \E i \in DOMAIN modelLoads : ModelFailedA(i)
  \/ HdrInputA
  \/ \E i \in DOMAIN hdrLoads : HdrLoadedA(i)
  \/ \E i \in DOMAIN hdrLoads : HdrFailedA(i)
  \/ MetalInputA
  \/ RoughnessInputA
  \/ BgToggleA

SpecA == InitA /\ [][NextA]_vars

-----------------------------------------------------------------------------
(* Both viewers: the page runs one of them *)

InitAB == InitA \/ InitB
NextAB == NextA \/ NextB
SpecAB == InitAB /\ [][NextAB]_vars

-----------------------------------------------------------------------------
(* frameObject and autoCenterAndScale on objects drawn from bounded sets *)

Extents == 0 .. MaxExtent
InputBoxes ==
  {EmptyBox} \cup
  {Box(lo, VAdd(lo, VecI(sx, sy, sz))) :
     lo \in {VZero, VecI(-1, 2, -MaxExtent)}, sx \in Extents, sy \in Extents, sz \in Extents}
InputObjects ==
  {[load |-> 1, file |-> "input", position |-> p, scale |-> s, localBox |-> b,
    nodes |-> <<Group(<<>>)>>] :
     p \in {VZero, VecI(1, -2, 3)}, s \in {ROne, Rat(1, 2), RInt(2)}, b \in InputBoxes}

InitInput ==
  /\ currentModel \in InputObjects
  /\ currentMaterialList = <<>>
  /\ envMap = 0
  /\ bgMode = 0
  /\ currentEnvMap = 0
  /\ useEnvBackground = TRUE
  /\ sceneChildren = {}
  /\ sceneBackground = NoBackground
  /\ sceneEnvironment = 0
  /\ camera = [position |-> Vec(RZero, Rat(7, 10), Rat(12, 10)),
               near |-> Rat(1, 10), far |-> RInt(100), fov |-> 45]
  /\ controls = [target |-> VZero, minDistance |-> RZero, maxDistance |-> Rat(1, 0)]
  /\ metalSlider = "0.3"
  /\ roughnessSlider = "0.3"
  /\ statusText = <<"initial">>
  /\ bgLabel = LabelInitial
  /\ modelLoads = <<[file |-> "input", status |-> "done"]>>
  /\ hdrLoads = <<>>
  /\ urls = {}
  /\ disposed = {}
  /\ coreLog = {}
  /\ pc = "input"

\* frameObject(currentModel), line 117, on the drawn object
FrameStep ==
  /\ pc = "input"
  /\ pc' = "done"
  /\ camera' = frameObject(currentModel, camera, controls).camera
  /\ controls' = frameObject(currentModel, camera, controls).controls
  /\ coreLog' = {Call("frameObject", currentModel)}
  /\ UNCHANGED <<currentModel, currentMaterialList, envMap, bgMode,
                 currentEnvMap, useEnvBackground, sceneChildren,
                 sceneBackground, sceneEnvironment, metalSlider,
                 roughnessSlider, statusText, bgLabel, modelLoads, hdrLoads,
                 urls, disposed>>

SpecFrame == InitInput /\ [][FrameStep]_vars

\* autoCenterAndScale(currentModel), line 305, on the drawn object
NormStep ==
  /\ pc = "input"
  /\ pc' = "done"
  /\ currentModel' = autoCenterAndScale(currentModel)
  /\ coreLog' = {Call("autoCenterAndScale", currentModel)}
  /\ UNCHANGED <<currentMaterialList, envMap, bgMode, currentEnvMap,
                 useEnvBackground, sceneChildren, sceneBackground,
                 sceneEnvironment, camera, controls, metalSlider,
                 roughnessSlider, statusText, bgLabel, modelLoads, hdrLoads,
                 urls, disposed>>

SpecNorm == InitInput /\ [][NormStep]_vars

-----------------------------------------------------------------------------
(* Properties *)

\* the model as its load handed it over, before any handler touched it
AsLoaded(model) == Loaded(model.load, model.file)

\* the last handler ran material propagation on the current model
Propagated ==
  /\ HasModel(currentModel)
  /\ \E c \in coreLog : c.fn \in {"applyMetalMaterial", "updateMaterialSettings"}

WorldBox == setFromObject(currentModel)
WorldSize == getSize(WorldBox)
WorldCenter == getCenter(WorldBox)

\* C1: after autoCenterAndScale, an object whose box had maxDim > 0 has its
\* world box centred at the origin in x and z, at 2% of the given height in y,
\* and its largest dimension is 0.6.
C1_CentredAndScaled ==
  (pc = "B" /\ HasModel(currentModel)) =>
    LET given == getSize(setFromObject(AsLoaded(currentModel)))
    IN  RLt(RZero, MaxDim(given)) =>
          /\ WorldCenter = Vec(RZero, RMul(given.y, Rat(2, 100)), RZero)
          /\ MaxDim(WorldSize) = Rat(6, 10)

\* C2: material propagation leaves every material that came without a
\* metalness or a roughness exactly as it was loaded.
C2_NonPBRUntouched ==
  HasModel(currentModel) =>
    \A k \in DOMAIN MaterialsOf(currentModel) :
      ~IsPBR(MaterialsOf(AsLoaded(currentModel))[k]) =>
        MaterialsOf(currentModel)[k] = MaterialsOf(AsLoaded(currentModel))[k]

\* C3: right after material propagation every PBR material of every mesh,
\* single or in a list, has the sliders' metalness and roughness and is dirty.
C3_EveryPBRMaterialUpdated ==
  Propagated =>
    \A k \in DOMAIN MaterialsOf(currentModel) :
      IsPBR(MaterialsOf(AsLoaded(currentModel))[k]) =>
        /\ MaterialsOf(currentModel)[k].metalness = parseFloat(metalSlider)
        /\ MaterialsOf(currentModel)[k].roughness = parseFloat(roughnessSlider)
        /\ MaterialsOf(currentModel)[k].needsUpdate

\* C4: right after applyMetalMaterial every PBR material has envMapIntensity
\* 1.2 if an environment map is present and 0.4 if none is, whatever it was.
C4_EnvMapIntensityExact ==
  (pc = "B" /\ Propagated) =>
    \A k \in DOMAIN MaterialsOf(currentModel) :
      IsPBR(MaterialsOf(currentModel)[k]) =>
        MaterialsOf(currentModel)[k].envMapIntensity =
          (IF currentEnvMap # 0 THEN Rat(6, 5) ELSE Rat(2, 5))

\* reached: propagation with a map present overwrote an intensity of 2
C4_Witness ==
  /\ pc = "B" /\ Propagated /\ currentEnvMap # 0
  /\ \E k \in DOMAIN MaterialsOf(currentModel) :
       /\ IsPBR(MaterialsOf(AsLoaded(currentModel))[k])
       /\ MaterialsOf(AsLoaded(currentModel))[k].envMapIntensity = RInt(2)
       /\ MaterialsOf(currentModel)[k].envMapIntensity = Rat(6, 5)

\* C5: after frameObject on a box with maxDim > 0, near < far and
\* 0 < minDistance < maxDistance.
C5_ClipAndOrbitOrdered ==
  (pc = "done" /\ RLt(RZero, MaxDim(WorldSize))) =>
    /\ RLt(camera.near, camera.far)
    /\ RLt(RZero, controls.minDistance)
    /\ RLt(controls.minDistance, controls.maxDistance)

\* reached: a framed flat box (one extent 0, another not)
C5_Witness ==
  /\ pc = "done" /\ \E c \in coreLog : c.fn = "frameObject"
  /\ WorldSize.y = RZero /\ RLt(RZero, WorldSize.x)
  /\ currentModel.scale = Rat(1, 2)

\* C6: after frameObject on a box of size (0,0,0) the camera and the controls
\* hold the finite values of an object of largest dimension 1: fit distance
\* 1.5 / tan(fov/2) > 0, near 0.01, far 20, minDistance 0.1, maxDistance 10.
C6_DegenerateFloor ==
  (pc = "done" /\ WorldSize = VZero) =>
    /\ camera.position = VAdd(WorldCenter, Vec(RZero, Rat(3, 10), RDiv(Rat(3, 2), TanHalfFov(45))))
    /\ IsFinite(camera.position.z) /\ RLt(WorldCenter.z, camera.position.z)
    /\ camera.near = Rat(1, 100) /\ camera.far = RInt(20)
    /\ controls.target = WorldCenter
    /\ controls.minDistance = Rat(1, 10) /\ controls.maxDistance = RInt(10)

\* reached: a framed point away from the origin
C6_Witness ==
  /\ pc = "done" /\ \E c \in coreLog : c.fn = "frameObject"
  /\ WorldSize = VZero /\ ~WorldBox.empty /\ WorldCenter # VZero

\* C7 as claimed: after autoCenterAndScale on a box of size (0,0,0) the
\* object's scale is 1, whatever it was before.
C7_ScaleIsOne ==
  (pc = "done" /\ WorldSize = VZero /\ \E c \in coreLog : c.fn = "autoCenterAndScale") =>
    currentModel.scale = ROne

\* C7 as amended: autoCenterAndScale on a box of size (0,0,0) leaves the
\* object's scale as it was (finite, 1 if it was 1) and moves the object by
\* minus the box's centre.
C7_ScaleUnchanged ==
  [][(pc = "input" /\ pc' = "done" /\ WorldSize = VZero) =>
       /\ currentModel'.scale = currentModel.scale
       /\ IsFinite(currentModel'.scale)
       /\ currentModel'.position = VSub(currentModel.position, WorldCenter)]_vars

\* reached: a normalised point-like object whose scale was 2 and is 2
C7_Witness ==
  /\ pc = "done" /\ \E c \in coreLog : c.fn = "autoCenterAndScale"
  /\ WorldSize = VZero /\ ~WorldBox.empty
  /\ currentModel.scale = RInt(2)

\* C8: every call of a core routine (frameObject, autoCenterAndScale, material
\* propagation) is on a model whose load has completed successfully.
C8_CoreOnlyOnLoadedModels ==
  \A c \in coreLog :
    /\ c.load \in DOMAIN modelLoads
    /\ modelLoads[c.load].status = "done"

\* reached: a slider ran propagation on the model of load 1 while load 2 is
\* still pending
C8_Witness ==
  /\ \E c \in coreLog : c.load = 1 /\ c.fn \in {"applyMetalMaterial", "updateMaterialSettings"}
  /\ 2 \in Pending(modelLoads)
  /\ statusText # <<"model loaded">>

\* C9: right after material propagation, running it again with the same
\* slider values and environment map leaves every material as it is.
C9_PropagationIdempotent ==
  Propagated =>
    /\ pc = "B" =>
         applyMetalMaterial(currentModel, parseFloat(metalSlider),
                            parseFloat(roughnessSlider), currentEnvMap) = currentModel
    /\ pc = "A" =>
         updateMaterialSettings(currentModel, currentMaterialList,
                                metalSlider, roughnessSlider) = currentModel

\* reached: viewer B propagated onto a material list, changing what was loaded
C9_Witness ==
  /\ pc = "B" /\ Propagated
  /\ \E k \in DOMAIN MaterialsOf(currentModel) :
       /\ k[2] = 2
       /\ MaterialsOf(currentModel)[k].metalness # MaterialsOf(AsLoaded(currentModel))[k].metalness

\* the eight corners of a box
Corners(box) ==
  {Vec(x, y, z) : x \in {box.min.x, box.max.x}, y \in {box.min.y, box.max.y},
                  z \in {box.min.z, box.max.z}}

\* p is between the near and far planes and within the vertical field of view
\* of the camera at cam.position looking at target with up = (0,1,0).  The
\* camera is straight in front of its target (equal x), so with
\* back = position - target and L = |back|, the depth of p is depthL / L and
\* its height over the axis upL / L.  L is bounded by
\* max(|back.y|, |back.z|) <= L <= |back.y| + |back.z|, which makes the near
\* and far tests here stronger than the exact ones.
InFrustum(p, cam, target) ==
  LET back == VSub(cam.position, target)
      q == VSub(p, cam.position)
      depthL == RNeg(RAdd(RMul(q.y, back.y), RMul(q.z, back.z)))
      upL == RSub(RMul(q.y, back.z), RMul(q.z, back.y))
  IN  /\ back.x = RZero /\ RLt(RZero, back.z)
      /\ RLe(RMul(cam.near, RAdd(RAbs(back.y), RAbs(back.z))), depthL)
      /\ RLe(depthL, RMul(cam.far, RMax(RAbs(back.y), RAbs(back.z))))
      /\ RLe(RAbs(upL), RMul(depthL, TanHalfFov(cam.fov)))

\* C10: after frameObject every corner of the object's box lies between the
\* near and far planes and within the vertical field of view of the camera
\* looking at the box's centre.
C10_BoxInFrustum ==
  (pc = "done" /\ ~WorldBox.empty) =>
    /\ controls.target = WorldCenter
    /\ \A p \in Corners(WorldBox) : InFrustum(p, camera, controls.target)

\* reached: a framed cube of the largest extent, scaled by 2
C10_Witness ==
  /\ pc = "done" /\ \E c \in coreLog : c.fn = "frameObject"
  /\ WorldSize = VecI(2 * MaxExtent, 2 * MaxExtent, 2 * MaxExtent)
  /\ camera.fov = 45

\* C11: in every reachable state the scene holds at most one loaded model, and
\* the one it holds is currentModel; a replaced model is no longer a child of
\* the scene once its replacement is current.
C11_SceneHoldsCurrentModel ==
  /\ Cardinality(sceneChildren) <= 1
  /\ sceneChildren = (IF HasModel(currentModel) THEN {currentModel.load} ELSE {})

\* reached: a model was on display and another load's model replaced it
C11_Witness ==
  /\ HasModel(currentModel)
  /\ sceneChildren = {currentModel.load}
  /\ \E i \in DOMAIN modelLoads :
       i # currentModel.load /\ modelLoads[i].status = "done"

\* every model load started so far has completed successfully, and there were
\* at least two of them
AllModelLoadsDone ==
  /\ Len(modelLoads) >= 2
  /\ \A i \in DOMAIN modelLoads : modelLoads[i].status = "done"

\* C12: once all of several model loads have completed successfully, the model
\* on display is the one of the most recently selected file (the load started
\* last), in whatever order the loads completed.
C12_LastSelectedWins ==
  AllModelLoadsDone => currentModel.load = Len(modelLoads)

\* the environment-reflection intensity the current map state calls for
IntensityForMap == IF currentEnvMap # 0 THEN Rat(6, 5) ELSE Rat(2, 5)

\* C13: in viewer B, in every reachable state, every PBR material of the
\* current model has envMapIntensity 1.2 when currentEnvMap is non-null and 0.4
\* when it is null, whichever handler ran last and in whatever order the loads
\* completed.
C13_IntensityFollowsMap ==
  (pc = "B" /\ HasModel(currentModel)) =>
    \A k \in DOMAIN MaterialsOf(currentModel) :
      LET m == MaterialsOf(currentModel)[k]
      IN  IsPBR(m) => m.envMapIntensity = IntensityForMap

\* reached: the model was on display before any map; the first HDR load has
\* just completed and the model's PBR materials carry 1.2
C13_Witness ==
  /\ pc = "B" /\ HasModel(currentModel)
  /\ statusText[1] = "hdr loaded"
  /\ currentEnvMap # 0 /\ disposed = {}
  /\ \E k \in DOMAIN MaterialsOf(currentModel) :
       LET m == MaterialsOf(currentModel)[k]
       IN  IsPBR(m) /\ m.envMapIntensity = Rat(6, 5)

\* the environment map the running viewer currently holds (0: none)
CurrentMap == IF pc = "A" THEN envMap ELSE currentEnvMap

\* the running viewer's background mode is 'environment'
EnvironmentMode == IF pc = "A" THEN bgMode = 0 ELSE useEnvBackground

\* the toggle button was clicked at least once: only its click handler
\* writes the label, and it never writes the page's initial text
ToggleClicked == bgLabel # LabelInitial

\* an HDR load has completed successfully at least once: the map variables
\* are assigned only there, and never back to null
HdrLoaded == CurrentMap # 0

\* C14: from the first toggle click or completed HDR load on, the scene
\* background is the current environment map exactly when the mode is
\* 'environment' and a map has been loaded, solid black in every other case,
\* and never a replaced or disposed map.
C14_BackgroundFollowsMode ==
  (ToggleClicked \/ HdrLoaded) =>
    /\ sceneBackground =
         (IF EnvironmentMode /\ CurrentMap # 0 THEN Texture(CurrentMap) ELSE Black)
    /\ sceneBackground.kind = "texture" =>
         /\ sceneBackground.tex = CurrentMap
         /\ sceneBackground.tex \notin disposed

\* reached: the mode was toggled away and back, two HDR loads have completed
\* (one map replaced the other) and the background shows the current map
C14_Witness ==
  /\ ToggleClicked /\ EnvironmentMode
  /\ \E i, j \in DOMAIN hdrLoads :
       /\ i # j /\ hdrLoads[i].status = "done" /\ hdrLoads[j].status = "done"
  /\ sceneBackground = Texture(CurrentMap)

\* C15: from the first toggle click on, the toggle button's label names the
\* background shown: it reads "environment" (LabelEnv) exactly when the scene
\* background is the environment map, and "black" (LabelBlack) exactly when
\* the scene background is black.
C15_LabelNamesBackground ==
  ToggleClicked =>
    /\ bgLabel = LabelEnv <=> sceneBackground.kind = "texture"
    /\ bgLabel = LabelBlack <=> sceneBackground = Black

\* a step in which a pending model load or HDR load fails
LoadFails ==
  \/ \E i \in DOMAIN modelLoads :
       /\ modelLoads[i].status = "pending"
       /\ i \in DOMAIN modelLoads' /\ modelLoads'[i].status = "failed"
  \/ \E i \in DOMAIN hdrLoads :
       /\ hdrLoads[i].status = "pending"
       /\ i \in DOMAIN hdrLoads' /\ hdrLoads'[i].status = "failed"

\* C16: a failed model load or HDR load writes the failure text to the status
\* box and leaves currentModel with all its material parameters, the scene's
\* children, the environment map, the scene background and environment, the
\* camera, the orbit limits, the background mode, the label and the sliders
\* as they were.
C16_FailureChangesOnlyStatus ==
  [][LoadFails =>
       /\ statusText' \in {<<"model failed">>, <<"hdr failed">>}
       /\ UNCHANGED <<currentModel, currentMaterialList, sceneChildren, envMap,
                      currentEnvMap, sceneBackground, sceneEnvironment, camera,
                      controls, bgMode, useEnvBackground, bgLabel, metalSlider,
                      roughnessSlider, disposed>>]_vars

\* reached: a load has just failed while a model and an environment map
\* loaded earlier are on display
C16_Witness ==
  /\ statusText \in {<<"model failed">>, <<"hdr failed">>}
  /\ \E i \in DOMAIN modelLoads \cup DOMAIN hdrLoads :
       \/ i \in DOMAIN modelLoads /\ modelLoads[i].status = "failed"
       \/ i \in DOMAIN hdrLoads /\ hdrLoads[i].status = "failed"
  /\ HasModel(currentModel) /\ sceneChildren = {currentModel.load}
  /\ CurrentMap # 0 /\ sceneEnvironment = CurrentMap

=============================================================================
